---- MODULE Spec2Model ----
(***************************************************************************)
(* Model of benchmarking_app.py: a Streamlit script that is re-executed    *)
(* from the top on every user interaction.  The state is what survives a   *)
(* rerun (st.session_state, the st.cache_data memo, the widget values) and *)
(* what the last execution of the script did and rendered.                 *)
(*                                                                         *)
(* Numbers are integers.  A spreadsheet cell is <<>> when it is missing    *)
(* (NaN) and <<v>> when it holds v.  A statistic is <<>> (NaN) or the      *)
(* reduced fraction <<num, den>>.                                          *)
(***************************************************************************)
EXTENDS Integers, Sequences, FiniteSets, TLC

VARIABLES
    authenticated,  \* st.session_state['authenticated']
    email,          \* text of the login box at the last login submission
    cache,          \* memo of load_fund_data: <<>> or <<snapshot>>
    excel,          \* the spreadsheet behind EXCEL_FILE_URL
    fund_name, asset_class, vintage, geography, fund_size,
    net_irr, net_tvpi, net_dpi,   \* widget values
    last,           \* what triggered the last execution of the script
    run,            \* what the last execution of the script did
    failed          \* history: a submission of this session ended in a failure

widgets == <<fund_name, asset_class, vintage, geography, fund_size,
             net_irr, net_tvpi, net_dpi>>
vars == <<authenticated, email, cache, excel, widgets, last, run, failed>>

-----------------------------------------------------------------------------
(* Bounds *)

MaxRows == 3                      \* rows of the spreadsheet
Emails == {"", "lp@fund.com", "eve@else.com"}
Names == {"", "Fund I"}
Vintages == {2000, 2021, 2022, 2023}
IrrInputs == {-1, 0}
MultipleInputs == {0, 1}

-----------------------------------------------------------------------------
(* Names of the program *)

NaN == <<>>
Inf == 1000000000

IRR == "NET IRR (%)"
TVPI == "NET TVPI (X)"
DPI == "NET DPI (X)"

VC == "Venture Capital (all stages)"
PE == "Private Equity (Buy-out)"

AUTHORIZED_EMAILS == {"lp@fund.com"}

AssetClassOptions == <<VC, PE>>
VintageOptions == [i \in 1..25 |-> 1999 + i]
GeographyOptions == <<"Europe", "US", "Europe & US">>

FundSizeOptions(ac) ==
    IF ac = VC
    THEN <<"$10mn-$50mn", "$50mn-$100mn", "$100mn-$200mn", "$200mn-$500mn",
           "$500mn+", "Agnostic">>
    ELSE <<"<$1bn", "$1bn-$3bn", "$3bn-$5bn", "$5bn-$10bn", ">$10bn",
           "Agnostic">>

Range(s) == {s[i] : i \in DOMAIN s}

-----------------------------------------------------------------------------
(* The spreadsheet *)

Row(ac, v, region, size, irr, tvpi, dpi) ==
    [c \in {"ASSET CLASS", "VINTAGE", "FM REGION", "FUND SIZE (USD MN)",
            IRR, TVPI, DPI} |->
        CASE c = "ASSET CLASS" -> ac
          [] c = "VINTAGE" -> v
          [] c = "FM REGION" -> region
          [] c = "FUND SIZE (USD MN)" -> size
          [] c = IRR -> irr
          [] c = TVPI -> tvpi
          [] c = DPI -> dpi]

Sheet ==
    << Row("Venture Capital", 2021, "Europe",         50, <<10>>, <<2>>, <<1>>),
       Row("Venture Capital", 2021, "North America",  75, NaN,    <<4>>, <<3>>),
       Row("Venture Capital", 2021, "Europe",         75, <<30>>, NaN,   <<0>>),
       Row("Private Equity",  2022, "Europe",       1000, <<-5>>, <<3>>, NaN),
       Row("Private Equity",  2023, "North America", 900, NaN,    <<2>>, <<0>>),
       Row("Venture Capital", 2021, "Asia",           50, <<20>>, <<5>>, <<2>>) >>

\* the increasing index sequences of length at most n over 1..m
RECURSIVE Picks(_, _)
Picks(m, n) ==
    IF n = 0 \/ m = 0 THEN {<<>>}
    ELSE Picks(m - 1, n) \cup {Append(p, m) : p \in Picks(m - 1, n - 1)}

\* the spreadsheets considered: up to MaxRows rows of Sheet, at least one
Catalogs ==
    {[i \in DOMAIN p |-> Sheet[p[i]]] : p \in Picks(Len(Sheet), MaxRows) \ {<<>>}}

-----------------------------------------------------------------------------
(* Login gate *)

authenticate_any(e) == TRUE

\* the value of st.session_state['authenticated'] after a login submission
authenticate(e) == e \in AUTHORIZED_EMAILS

-----------------------------------------------------------------------------
(* Catalog load *)

load_fund_data_stale(memo, sheet) == IF memo = <<>> THEN sheet ELSE <<>>

\* @st.cache_data: the first call reads the spreadsheet, later calls return
\* the memoised snapshot
load_fund_data(memo, sheet) == IF memo = <<>> THEN sheet ELSE memo[1]

-----------------------------------------------------------------------------
(* Selector mappings *)

asset_class_mapping(ac) ==
    IF ac = VC THEN <<"Venture Capital">> ELSE <<"Private Equity">>

geography_mapping(g) ==
    CASE g = "Europe" -> <<"Europe">>
      [] g = "US" -> <<"North America">>
      [] g = "Europe & US" -> <<"Europe", "North America">>

\* the (min, max) pair of a size bucket of an asset class
fund_size_mapping(ac, fs) ==
    IF ac = VC
    THEN CASE fs = "$10mn-$50mn" -> <<10, 50>>
           [] fs = "$50mn-$100mn" -> <<50, 100>>
           [] fs = "$100mn-$200mn" -> <<100, 200>>
           [] fs = "$200mn-$500mn" -> <<200, 500>>
           [] fs = "$500mn+" -> <<500, Inf>>
           [] fs = "Agnostic" -> <<0, Inf>>
    ELSE CASE fs = "<$1bn" -> <<0, 1000>>
           [] fs = "$1bn-$3bn" -> <<1000, 3000>>
           [] fs = "$3bn-$5bn" -> <<3000, 5000>>
           [] fs = "$5bn-$10bn" -> <<5000, 10000>>
           [] fs = ">$10bn" -> <<10000, Inf>>
           [] fs = "Agnostic" -> <<0, Inf>>

-----------------------------------------------------------------------------
(* Filter *)

\* Series.isin(values)
isin(x, values) == x \in Range(values)

between_open_right(x, lo, hi) == lo <= x /\ (hi = Inf \/ x < hi)

between_no_upper(x, lo, hi) == lo <= x

\* Series.between(left, right), inclusive on both ends; right may be inf
between(x, lo, hi) == lo <= x /\ (hi = Inf \/ x <= hi)

\* the mask of the boolean indexing, for one row
keep(row, classes, v, regions, size_range) ==
    /\ isin(row["ASSET CLASS"], classes)
    /\ row["VINTAGE"] = v
    /\ isin(row["FM REGION"], regions)
    /\ between(row["FUND SIZE (USD MN)"], size_range[1], size_range[2])

\* the index of fund_data[mask] over the first n rows: the positions of the
\* rows kept, in order
RECURSIVE filtered_index(_, _, _, _, _, _)
filtered_index(fund_data, n, classes, v, regions, size_range) ==
    IF n = 0 THEN <<>>
    ELSE LET rest == filtered_index(fund_data, n - 1, classes, v, regions,
                                    size_range)
         IN  IF keep(fund_data[n], classes, v, regions, size_range)
             THEN Append(rest, n)
             ELSE rest

\* filtered_data = fund_data[mask], as the index it keeps
filtered_data(fund_data, classes, v, regions, size_range) ==
    filtered_index(fund_data, Len(fund_data), classes, v, regions, size_range)

-----------------------------------------------------------------------------
(* Applicable metrics and validation *)

metric_names_two_years(v) ==
    IF v \in {2023, 2024} THEN <<TVPI, DPI>> ELSE <<IRR, TVPI, DPI>>

metric_names(v) ==
    IF v \in {2022, 2023, 2024} THEN <<TVPI, DPI>> ELSE <<IRR, TVPI, DPI>>

\* the items of a dict, in insertion order, whose key is in names
RECURSIVE items_in(_, _)
items_in(items, names) ==
    IF items = <<>> THEN <<>>
    ELSE IF items[1][1] \in Range(names)
         THEN <<items[1]>> \o items_in(Tail(items), names)
         ELSE items_in(Tail(items), names)

RECURSIVE items_truthy(_, _)
items_truthy(items, names) ==
    IF items = <<>> THEN <<>>
    ELSE IF items[1][1] \in Range(names) /\ items[1][2] # 0
         THEN <<items[1]>> \o items_truthy(Tail(items), names)
         ELSE items_truthy(Tail(items), names)

metrics_dict_truthy(irr, tvpi, dpi, names) ==
    items_truthy(<< <<IRR, irr>>, <<TVPI, tvpi>>, <<DPI, dpi>> >>, names)

\* metrics = {k: v for k, v in metrics.items() if k in metric_names}
metrics_dict(irr, tvpi, dpi, names) ==
    items_in(<< <<IRR, irr>>, <<TVPI, tvpi>>, <<DPI, dpi>> >>, names)

\* [k for k, v in required_metrics.items() if v is None or v == 0];
\* a number_input is never None
RECURSIVE missing_metrics(_)
missing_metrics(required_metrics) ==
    IF required_metrics = <<>> THEN <<>>
    ELSE IF required_metrics[1][2] = 0
         THEN <<required_metrics[1][1]>> \o missing_metrics(Tail(required_metrics))
         ELSE missing_metrics(Tail(required_metrics))

fund_name_never_missing(name) == FALSE

\* not fund_name
fund_name_missing(name) == name = ""

-----------------------------------------------------------------------------
(* Statistics *)

Abs(x) == IF x < 0 THEN -x ELSE x

RECURSIVE Gcd(_, _)
Gcd(a, b) == IF b = 0 THEN a ELSE Gcd(b, a % b)

\* the fraction num/den (den > 0) in lowest terms
Frac(num, den) ==
    LET g == Gcd(Abs(num), den) IN <<num \div g, den \div g>>

RECURSIVE fillna_zero(_, _, _)
fillna_zero(fund_data, index, metric) ==
    IF index = <<>> THEN <<>>
    ELSE LET cell == fund_data[index[1]][metric]
         IN  (IF cell = NaN THEN <<0>> ELSE cell)
             \o fillna_zero(fund_data, Tail(index), metric)

\* the values of column metric over the rows of index, missing cells skipped
\* (quantile and mean skip NaN)
RECURSIVE dropna(_, _, _)
dropna(fund_data, index, metric) ==
    IF index = <<>> THEN <<>>
    ELSE fund_data[index[1]][metric] \o dropna(fund_data, Tail(index), metric)

RECURSIVE Insert(_, _)
Insert(sorted, x) ==
    IF sorted = <<>> THEN <<x>>
    ELSE IF x <= sorted[1] THEN <<x>> \o sorted
         ELSE <<sorted[1]>> \o Insert(Tail(sorted), x)

RECURSIVE Sort(_)
Sort(values) ==
    IF values = <<>> THEN <<>> ELSE Insert(Sort(Tail(values)), values[1])

\* Series.quantile(qn/qd) of the present values, linear interpolation between
\* the order statistics around position (n - 1) * qn / qd
quantile(values, qn, qd) ==
    IF values = <<>> THEN NaN
    ELSE LET s == Sort(values)
             h == (Len(s) - 1) * qn
             lo == (h \div qd) + 1
             fr == h % qd
         IN  IF fr = 0 THEN Frac(s[lo], 1)
             ELSE Frac(qd * s[lo] + fr * (s[lo + 1] - s[lo]), qd)

RECURSIVE Sum(_)
Sum(values) == IF values = <<>> THEN 0 ELSE values[1] + Sum(Tail(values))

\* Series.mean() of the present values
mean(values) ==
    IF values = <<>> THEN NaN ELSE Frac(Sum(values), Len(values))

\* benchmark_values[metric] for every metric of metric_names
benchmark_values(fund_data, index, names) ==
    [m \in Range(names) |->
        LET col == dropna(fund_data, index, m)
        IN  [k \in {"Top Decile (90%)", "Top Quartile (75%)", "Average"} |->
                CASE k = "Top Decile (90%)" -> quantile(col, 9, 10)
                  [] k = "Top Quartile (75%)" -> quantile(col, 3, 4)
                  [] k = "Average" -> mean(col)]]

\* one bar chart per item of metrics: its title metric and its four bars
charts(metrics, benchmarks, name) ==
    [i \in DOMAIN metrics |->
        [metric |-> metrics[i][1],
         categories |-> <<"Top Decile (90%)", "Top Quartile (75%)", "Average", name>>,
         values |-> <<benchmarks[metrics[i][1]]["Top Decile (90%)"],
                      benchmarks[metrics[i][1]]["Top Quartile (75%)"],
                      benchmarks[metrics[i][1]]["Average"],
                      metrics[i][2]>>]]

\* the fields of the footer line
footer_text(ac, v, selected_regions, num_funds) ==
    << [asset_class |-> ac, vintage |-> v, geography |-> selected_regions,
        num_funds |-> num_funds] >>

-----------------------------------------------------------------------------
(* One execution of the script *)

\* nothing computed, nothing rendered in the main area
Blank ==
    [outcome |-> "idle", steps |-> <<>>, filtered_data |-> <<>>, num_funds |-> 0,
     metric_names |-> <<>>, metrics |-> <<>>, missing_metrics |-> <<>>,
     benchmark_values |-> <<>>, charts |-> <<>>, footer |-> <<>>]

\* the body of the Submit handler, from the catalog load to the footer
Engine(memo, sheet, name, ac, v, g, fs, irr, tvpi, dpi) ==
    LET fund_data == load_fund_data(memo, sheet)
        selected_asset_class == asset_class_mapping(ac)
        selected_regions == geography_mapping(g)
        selected_size_range == fund_size_mapping(ac, fs)
        filtered == filtered_data(fund_data, selected_asset_class, v,
                                  selected_regions, selected_size_range)
        num_funds == Len(filtered)
        names == metric_names(v)
        metrics == metrics_dict(irr, tvpi, dpi, names)
        required_metrics == items_in(metrics, names)
        missing == missing_metrics(required_metrics)
        benchmarks == benchmark_values(fund_data, filtered, names)
        Filtered == [Blank EXCEPT !.filtered_data = filtered,
                                  !.num_funds = num_funds]
        Checked == [Filtered EXCEPT !.metric_names = names,
                                    !.metrics = metrics,
                                    !.missing_metrics = missing]
    IN  IF fund_name_missing(name)
        THEN [Blank EXCEPT !.outcome = "name_error",
                           !.steps = <<"load", "fund_name_error">>]
        ELSE IF num_funds = 0
        THEN [Filtered EXCEPT !.outcome = "empty",
                              !.steps = <<"load", "mappings", "filter",
                                          "empty_warning">>]
        ELSE IF missing # <<>>
        THEN [Checked EXCEPT !.outcome = "metric_error",
                             !.steps = <<"load", "mappings", "filter",
                                         "metric_names", "metric_error">>]
        ELSE IF metrics = <<>>
        THEN [Checked EXCEPT !.outcome = "no_metrics",
                             !.benchmark_values = benchmarks,
                             !.steps = <<"load", "mappings", "filter",
                                         "metric_names", "validated",
                                         "benchmarks", "no_metrics_warning">>]
        ELSE [Checked EXCEPT !.outcome = "benchmarks",
                             !.benchmark_values = benchmarks,
                             !.charts = charts(metrics, benchmarks, name),
                             !.footer = footer_text(ac, v, selected_regions,
                                                    num_funds),
                             !.steps = <<"load", "mappings", "filter",
                                         "metric_names", "validated",
                                         "benchmarks", "charts", "footer">>]

-----------------------------------------------------------------------------
(* State machine *)

Init ==
    /\ authenticated = FALSE
    /\ email = ""
    /\ cache = <<>>
    /\ excel \in Catalogs
    /\ fund_name = ""
    /\ asset_class = AssetClassOptions[1]
    /\ vintage = VintageOptions[1]
    /\ geography = GeographyOptions[1]
    /\ fund_size = FundSizeOptions(AssetClassOptions[1])[1]
    /\ net_irr = 0
    /\ net_tvpi = 0
    /\ net_dpi = 0
    /\ last = "start"
    /\ run = Blank
    /\ failed = FALSE

\* Submit of the login form: the script runs authenticate() and stops at the
\* gate unless the flag was set; in the run that sets it the main Submit
\* button has not been pressed
Login(e) ==
    /\ ~authenticated
    /\ email' = e
    /\ authenticated' = authenticate(e)
    /\ last' = "login"
    /\ run' = [Blank EXCEPT !.outcome = IF authenticate(e) THEN "login_ok"
                                        ELSE "unauthorized"]
    /\ UNCHANGED <<cache, excel, widgets, failed>>

\* a widget of the sidebar is edited: the script reruns with the main Submit
\* button not pressed, so the handler is skipped and its output is gone
Edit ==
    /\ authenticated
    /\ last' = "edit"
    /\ run' = Blank
    /\ UNCHANGED <<authenticated, email, cache, excel, failed>>

SetFundName(x) ==
    /\ Edit /\ x # fund_name /\ fund_name' = x
    /\ UNCHANGED <<asset_class, vintage, geography, fund_size,
                   net_irr, net_tvpi, net_dpi>>

\* the size selectbox of the other asset class is another widget: it starts
\* at its first option
SetAssetClass(x) ==
    /\ Edit /\ x # asset_class /\ asset_class' = x
    /\ fund_size' = FundSizeOptions(x)[1]
    /\ UNCHANGED <<fund_name, vintage, geography, net_irr, net_tvpi, net_dpi>>

SetVintage(x) ==
    /\ Edit /\ x # vintage /\ vintage' = x
    /\ UNCHANGED <<fund_name, asset_class, geography, fund_size,
                   net_irr, net_tvpi, net_dpi>>

SetGeography(x) ==
    /\ Edit /\ x # geography /\ geography' = x
    /\ UNCHANGED <<fund_name, asset_class, vintage, fund_size,
                   net_irr, net_tvpi, net_dpi>>

SetFundSize(x) ==
    /\ Edit /\ x # fund_size /\ fund_size' = x
    /\ UNCHANGED <<fund_name, asset_class, vintage, geography,
                   net_irr, net_tvpi, net_dpi>>

SetNetIrr(x) ==
    /\ Edit /\ x # net_irr /\ net_irr' = x
    /\ UNCHANGED <<fund_name, asset_class, vintage, geography, fund_size,
                   net_tvpi, net_dpi>>

SetNetTvpi(x) ==
    /\ Edit /\ x # net_tvpi /\ net_tvpi' = x
    /\ UNCHANGED <<fund_name, asset_class, vintage, geography, fund_size,
                   net_irr, net_dpi>>

SetNetDpi(x) ==
    /\ Edit /\ x # net_dpi /\ net_dpi' = x
    /\ UNCHANGED <<fund_name, asset_class, vintage, geography, fund_size,
                   net_irr, net_tvpi>>

\* the main Submit button: the handler runs on the current widget values
Submit ==
    /\ authenticated
    /\ cache' = <<load_fund_data(cache, excel)>>
    /\ run' = Engine(cache, excel, fund_name, asset_class, vintage, geography,
                     fund_size, net_irr, net_tvpi, net_dpi)
    /\ last' = "submit"
    /\ failed' = (failed \/ run'.outcome \in {"name_error", "metric_error", "empty"})
    /\ UNCHANGED <<authenticated, email, excel, widgets>>

Next ==
    \/ \E e \in Emails : Login(e)
    \/ \E x \in Names : SetFundName(x)
    \/ \E x \in Range(AssetClassOptions) : SetAssetClass(x)
    \/ \E x \in Vintages \cap Range(VintageOptions) : SetVintage(x)
    \/ \E x \in Range(GeographyOptions) : SetGeography(x)
    \/ \E x \in Range(FundSizeOptions(asset_class)) : SetFundSize(x)
    \/ \E x \in IrrInputs : SetNetIrr(x)
    \/ \E x \in MultipleInputs : SetNetTvpi(x)
    \/ \E x \in MultipleInputs : SetNetDpi(x)
    \/ Submit

Spec == Init /\ [][Next]_vars

-----------------------------------------------------------------------------
(* Properties *)

Submitted == last = "submit"
Did(step) == step \in Range(run.steps)
Kept == Range(run.filtered_data)
Size(i) == excel[i]["FUND SIZE (USD MN)"]

RecentVintages == {2022, 2023, 2024}
Applicable == IF vintage \in RecentVintages THEN {TVPI, DPI} ELSE {IRR, TVPI, DPI}
UserValue(m) == CASE m = IRR -> net_irr [] m = TVPI -> net_tvpi [] m = DPI -> net_dpi
MetricsProvided == \A m \in Applicable : UserValue(m) # 0

AssetClassSet == IF asset_class = VC THEN {"Venture Capital"} ELSE {"Private Equity"}
RegionSet ==
    CASE geography = "Europe" -> {"Europe"}
      [] geography = "US" -> {"North America"}
      [] geography = "Europe & US" -> {"Europe", "North America"}
Bucket == fund_size_mapping(asset_class, fund_size)

\* the four predicates of the filter, on row i of the catalog
Matches(i) ==
    /\ excel[i]["ASSET CLASS"] \in AssetClassSet
    /\ excel[i]["VINTAGE"] = vintage
    /\ excel[i]["FM REGION"] \in RegionSet
    /\ Bucket[1] <= Size(i)
    /\ Bucket[2] # Inf => Size(i) <= Bucket[2]
Matching == {i \in DOMAIN excel : Matches(i)}

\* C1: a catalog record is in the filtered subset iff its asset class, vintage,
\* region and size (bucket ends inclusive) all match the query, and the number
\* of funds computed and reported is the size of that subset.
C1_FilterIsConjunction ==
    Did("filter") =>
        /\ \A i \in DOMAIN excel : i \in Kept <=> Matches(i)
        /\ run.num_funds = Cardinality(Matching)
        /\ Len(run.filtered_data) = Cardinality(Kept)
        /\ run.footer # <<>> => run.footer[1].num_funds = Cardinality(Matching)

\* a submission that kept a record whose size is the upper end of the bucket
\* and dropped another record of the catalog
C1_Witness ==
    /\ run.outcome = "benchmarks"
    /\ \E i \in Kept : Bucket[2] # Inf /\ Size(i) = Bucket[2]
    /\ \E j \in DOMAIN excel : j \notin Kept

\* C2: when benchmarks are produced, the metrics validated, benchmarked and
\* charted are exactly TVPI and DPI for vintages 2022-2024 and IRR, TVPI and
\* DPI for earlier vintages, whatever IRR value the user entered.
C2_MetricSetByVintage ==
    run.outcome = "benchmarks" =>
        /\ Range(run.metric_names) = Applicable
        /\ {it[1] : it \in Range(run.metrics)} = Applicable
        /\ DOMAIN run.benchmark_values = Applicable
        /\ {c.metric : c \in Range(run.charts)} = Applicable
        /\ Len(run.charts) = Cardinality(Applicable)
        /\ vintage = 2023 => \A c \in Range(run.charts) : c.metric # IRR

\* benchmarks for vintage 2023 although a nonzero IRR was entered
C2_Witness ==
    /\ run.outcome = "benchmarks"
    /\ vintage = 2023
    /\ net_irr # 0
    /\ IRR \notin DOMAIN run.benchmark_values

Without(index, i) == SelectSeq(index, LAMBDA x : x # i)
Present(m) == {i \in Kept : excel[i][m] # NaN}

RECURSIVE SumOver(_, _)
SumOver(rows, m) ==
    IF rows = {} THEN 0
    ELSE LET i == CHOOSE x \in rows : TRUE
         IN  excel[i][m][1] + SumOver(rows \ {i}, m)

Least(rows, m) == CHOOSE v \in {excel[i][m][1] : i \in rows} :
                      \A i \in rows : v <= excel[i][m][1]
Greatest(rows, m) == CHOOSE v \in {excel[i][m][1] : i \in rows} :
                         \A i \in rows : excel[i][m][1] <= v

\* C3: the three statistics of a metric are computed over the filtered records
\* that have a value for it: removing a filtered record whose value is missing
\* leaves them unchanged, the average is the sum of the present values over
\* their number, the quantiles lie between the least and the greatest present
\* value, and every filtered record counts in the number of funds.
C3_MissingValuesIgnored ==
    run.outcome = "benchmarks" =>
        /\ run.num_funds = Cardinality(Kept)
        /\ \A m \in Range(run.metric_names) :
            LET b == run.benchmark_values[m]
                n == Cardinality(Present(m))
            IN  /\ \A i \in Kept \ Present(m) :
                       benchmark_values(excel, Without(run.filtered_data, i),
                                        run.metric_names)[m] = b
                /\ n = 0 => \A k \in DOMAIN b : b[k] = NaN
                /\ n > 0 =>
                    /\ b["Average"][1] * n = b["Average"][2] * SumOver(Present(m), m)
                    /\ \A k \in {"Top Decile (90%)", "Top Quartile (75%)"} :
                        /\ Least(Present(m), m) * b[k][2] <= b[k][1]
                        /\ b[k][1] <= Greatest(Present(m), m) * b[k][2]

\* benchmarks over a filtered set in which one record lacks the IRR but has a
\* TVPI, and another record has an IRR
C3_Witness ==
    /\ run.outcome = "benchmarks"
    /\ IRR \in Range(run.metric_names)
    /\ \E i \in Kept : excel[i][IRR] = NaN /\ excel[i][TVPI] # NaN
    /\ Present(IRR) # {}
    /\ run.num_funds > Cardinality(Present(IRR))

\* C4: a submission with a fund name and a zero value for an applicable metric
\* ends in the metric validation failure, before filtering and without any
\* filtering outcome, whether or not the filters match a record.
C4_ValidationBeforeFiltering ==
    (Submitted /\ fund_name # "" /\ ~MetricsProvided) =>
        /\ run.outcome = "metric_error"
        /\ ~Did("filter")
        /\ ~Did("empty_warning")

\* C5: a submission with a fund name and nonzero applicable metrics whose
\* filters match no record ends in the empty-result warning: no validation
\* error, no benchmark values, no chart, no footer.
C5_EmptyResult ==
    (Submitted /\ fund_name # "" /\ MetricsProvided /\ Matching = {}) =>
        /\ run.outcome = "empty"
        /\ Did("empty_warning")
        /\ ~Did("metric_error") /\ ~Did("fund_name_error")
        /\ run.num_funds = 0
        /\ run.benchmark_values = <<>>
        /\ run.charts = <<>>
        /\ run.footer = <<>>

\* such a submission on a catalog that has records of the asset class selected
C5_Witness ==
    /\ Submitted /\ fund_name # "" /\ MetricsProvided /\ Matching = {}
    /\ \E i \in DOMAIN excel : excel[i]["ASSET CLASS"] \in AssetClassSet
    /\ run.outcome = "empty"

\* C6: a submission with an empty fund name ends in the fund-name validation
\* failure right after the catalog load: no mapping, no filter, no metric
\* validation, no benchmark, nothing rendered.
C6_FundNameRequired ==
    (Submitted /\ fund_name = "") =>
        /\ run.outcome = "name_error"
        /\ run.steps = <<"load", "fund_name_error">>
        /\ run.filtered_data = <<>> /\ run.metric_names = <<>>
        /\ run.missing_metrics = <<>>
        /\ run.benchmark_values = <<>>
        /\ run.charts = <<>>
        /\ run.footer = <<>>

\* such a submission with inputs that would otherwise produce benchmarks
C6_Witness ==
    /\ Submitted /\ fund_name = "" /\ MetricsProvided /\ Matching # {}
    /\ run.outcome = "name_error"

NamedBuckets(ac) == Range(FundSizeOptions(ac)) \ {"Agnostic"}
SelectorOf(i) == IF excel[i]["ASSET CLASS"] = "Venture Capital" THEN VC ELSE PE

\* C7: a bucket with a finite upper bound does not match a record whose size
\* equals that bound, so a record kept by the filter is matched by at most one
\* non-Agnostic bucket of its asset class.
C7_HalfOpenBuckets ==
    (Did("filter") /\ fund_size # "Agnostic") =>
        \A i \in Kept :
            /\ Bucket[2] # Inf => Size(i) # Bucket[2]
            /\ Cardinality({fs \in NamedBuckets(SelectorOf(i)) :
                   between(Size(i), fund_size_mapping(SelectorOf(i), fs)[1],
                           fund_size_mapping(SelectorOf(i), fs)[2])}) <= 1

EngineRan == run.steps # <<>>

\* C8: the engine (load, filter, benchmarks) runs only in an authenticated
\* session; the flag turns true only by a login with an allow-listed email; a
\* login with another email leaves the session unauthenticated and runs
\* nothing.
Gated ==
    /\ (EngineRan \/ cache # <<>>) => authenticated
    /\ (last = "login" /\ email \notin AUTHORIZED_EMAILS) =>
           (~authenticated /\ ~EngineRan /\ cache = <<>>)
GatedStep ==
    /\ (~authenticated /\ authenticated') =>
           (last' = "login" /\ email' \in AUTHORIZED_EMAILS)
    /\ ~authenticated' => (~EngineRan' /\ cache' = <<>>)

C8_AccessGate == []Gated /\ [][GatedStep]_vars

\* benchmarks computed in a session opened with an allow-listed email
C8_Witness ==
    /\ authenticated /\ email \in AUTHORIZED_EMAILS
    /\ run.outcome = "benchmarks"

GoodSubmission == Submitted /\ fund_name # "" /\ MetricsProvided /\ Matching # {}
FirstRun == Engine(<<>>, excel, fund_name, asset_class, vintage, geography,
                   fund_size, net_irr, net_tvpi, net_dpi)

\* C9: once a submission has failed (fund name, metric, empty result) the
\* session is still authenticated and the catalog in use is still the
\* spreadsheet as loaded, and a later submission with a fund name, nonzero
\* applicable metrics and a matching record produces the benchmarks it would
\* have produced as the first submission of the session.
C9_FailuresRecoverable ==
    failed =>
        /\ authenticated
        /\ cache = <<excel>>
        /\ GoodSubmission => (run.outcome = "benchmarks" /\ run = FirstRun)

\* benchmarks produced by a submission that follows a failed one
C9_Witness ==
    /\ failed
    /\ GoodSubmission /\ run.outcome = "benchmarks"
    /\ cache = <<excel>>

\* C10: the warning that there are no metrics to display never occurs: the
\* applicable metrics always include TVPI and DPI, the user values restricted
\* to them are never empty, and the number of charts is the number of
\* applicable metrics, 2 or 3.
C10_NoMetricsUnreachable ==
    /\ run.outcome # "no_metrics"
    /\ ~Did("no_metrics_warning")
    /\ Did("metric_names") =>
        /\ {TVPI, DPI} \subseteq Range(run.metric_names)
        /\ run.metrics # <<>>
    /\ run.charts # <<>> =>
        /\ Len(run.charts) = Len(run.metric_names)
        /\ Len(run.charts) \in {2, 3}

\* charts rendered for a recent vintage: two of them
C10_Witness ==
    /\ run.outcome = "benchmarks"
    /\ Len(run.charts) = 2

====
